---- MODULE Spec2Model ----
(***************************************************************************)
(* A model of the bGrease core: the mode stack manager (grease/mode.py)    *)
(* with its composite mode (BaseMulti) and the component entity manager    *)
(* (grease/component/manager.py).                                          *)
(*                                                                         *)
(* Every handler is an operator from a state record to a state record,     *)
(* composed in the order of the handler's statements; an action applies    *)
(* one whole handler call.  Hook invocations are appended to a log that is *)
(* emptied at the start of every call, so the order of the hooks inside    *)
(* one call is part of the state.                                          *)
(***************************************************************************)
EXTENDS Integers, Sequences, FiniteSets, TLC

VARIABLES
    modes,      \* BaseManager.modes: the mode stack, last element on top
    pushed,     \* history: for each stack entry, its rank in append order
    active,     \* BaseMode.active, per mode
    manager,    \* BaseMode.manager, per mode
    submodes,   \* BaseMulti.submodes of the composite mode
    active_submode, \* BaseMulti.active_submode of the composite mode
    step_rate,  \* BaseMulti.step_rate: the submode whose step_rate it holds, or None
    log,        \* hooks invoked by the last manager call, in order
    op,         \* the last call: its name and argument
    ret,        \* what the last call returned
    raised,     \* the exception the last call raised, or None
    entities,   \* ComponentEntityManager._entities: the live entity ids
    entity_id,  \* ComponentEntityManager._entity_id: the last id issued
    issued,     \* history: every id new_entity has returned
    components, \* ComponentEntityManager._component_map: name -> store
    gen,        \* the generator the last iter_components call returned
    dict_has_itervalues, \* the interpreter: dict.itervalues exists (Python 2) or not
    systems,    \* ComponentEntityManager.systems
    registered, \* history: for each entry of systems, its rank in registration order
    time        \* ComponentEntityManager.time

mvars == <<modes, pushed, active, manager, submodes, active_submode, step_rate>>

evars == <<entities, entity_id, issued, components, gen, dict_has_itervalues>>

svars == <<systems, registered, time>>

vars == <<modes, pushed, active, manager, submodes, active_submode, step_rate,
          log, op, ret, raised,
          entities, entity_id, issued, components, gen, dict_has_itervalues,
          systems, registered, time>>

None == "None"

\* The mode objects of the model (plain BaseMode instances).
Modes == {"A", "B", "C"}

\* The composite mode object (a BaseMulti instance).
Multi == "M"

\* A plain mode that shares the stack with the composite and is never one
\* of its submodes.
Other == "P"

\* Every mode object: the active flag and the manager reference are per mode.
AllModes == Modes \cup {Multi, Other}

\* The manager object that owns the stack.
Mgr == "mgr"

\* Another manager object, passed in direct calls of a mode's activate.
Mgr2 == "mgr2"

\* Bound on the depth of the mode stack.
MaxDepth == 3

\* Bound on the depth of the stack the composite is pushed on.
MaxMultiDepth == 2

\* Bound on the "index" argument of add_submode and activate_subnode.
MaxIndex == 1

(***************************************************************************)
(* Sequence helpers (list.pop, list.remove of Python).                     *)
(***************************************************************************)
Last(s) == s[Len(s)]

Front(s) == SubSeq(s, 1, Len(s) - 1)

RemoveAt(s, i) == SubSeq(s, 1, i - 1) \o SubSeq(s, i + 1, Len(s))

\* list.index: the position of the first occurrence of x in s (x is in s).
IndexOf(s, x) == CHOOSE i \in 1..Len(s) : s[i] = x /\ \A j \in 1..(i - 1) : s[j] # x

Range(s) == {s[i] : i \in 1..Len(s)}

\* The append ranks left after the entry at position i is taken out.
DropRank(r, i) == [k \in 1..(Len(r) - 1) |->
                     LET v == RemoveAt(r, i)[k] IN IF v > r[i] THEN v - 1 ELSE v]

(***************************************************************************)
(* BaseMode                                                                *)
(***************************************************************************)
on_activate(st, m) == [st EXCEPT !.log = Append(@, <<"on_activate", m>>)]

on_deactivate(st, m) == [st EXCEPT !.log = Append(@, <<"on_deactivate", m>>)]

\* (mutant) activate without the test of the active flag
BaseMode_activate_always(st, m, mode_manager) ==
    [on_activate(st, m) EXCEPT !.manager[m] = mode_manager, !.active[m] = TRUE]

\* BaseMode.activate(mode_manager)
BaseMode_activate_by(st, m, mode_manager) ==
    IF ~st.active[m]
    THEN [on_activate(st, m) EXCEPT !.manager[m] = mode_manager, !.active[m] = TRUE]
    ELSE st

\* BaseMode.activate as the manager calls it: mode.activate(self)
BaseMode_activate(st, m) == BaseMode_activate_by(st, m, Mgr)

BaseMode_deactivate(st, m) ==
    [on_deactivate(st, m) EXCEPT !.active[m] = FALSE]

(***************************************************************************)
(* Exceptions: a statement after one that raised is not executed.          *)
(***************************************************************************)
Try(st, F(_)) == IF st.raised # None THEN st ELSE F(st)

Raise(st, exc) == [st EXCEPT !.raised = exc, !.ret = None]

(***************************************************************************)
(* BaseMulti: activation.  The composite's submodes are plain modes, so    *)
(* manager.activate_mode(submode) and manager.deactivate_mode(submode) are *)
(* BaseMode.activate and BaseMode.deactivate of the submode.  "assert"     *)
(* statements are executed (the interpreter's default).                    *)
(***************************************************************************)
\* self.active_submode = submode; self.step_rate = submode.step_rate.  The
\* submodes are modes that have a step_rate attribute (BaseMode itself does
\* not define one); the value copied is recorded as the submode it is read
\* from.  None has no such attribute.
_set_active_submode(st, submode) ==
    LET s1 == [st EXCEPT !.active_submode = submode]
    IN  IF submode = None
        THEN Raise(s1, "AttributeError")
        ELSE [s1 EXCEPT !.step_rate = submode]

clear_subnode(st) == [st EXCEPT !.active_submode = None, !.step_rate = None]

_deactivate_submode(st, clear) ==
    IF st.active_submode # None
    THEN LET s1 == IF st.active[Multi]
                   THEN BaseMode_deactivate(st, st.active_submode)
                   ELSE st
         IN  IF clear THEN clear_subnode(s1) ELSE s1
    ELSE st

\* (mutant) a reactivated composite starts again from its first submode
BaseMulti_activate_first(st) ==
    IF st.submodes = <<>>
    THEN Raise(st, "AssertionError")
    ELSE LET s1 == [st EXCEPT !.manager[Multi] = Mgr]
             s2 == _set_active_submode(s1, s1.submodes[1])
             s3 == BaseMode_activate(s2, s2.active_submode)
         IN  BaseMode_activate(s3, Multi)

BaseMulti_activate(st) ==
    IF st.submodes = <<>>
    THEN Raise(st, "AssertionError")
    ELSE LET s1 == [st EXCEPT !.manager[Multi] = Mgr]
             s2 == IF s1.active_submode = None
                   THEN _set_active_submode(s1, s1.submodes[1])
                   ELSE _set_active_submode(s1, s1.active_submode)
             s3 == BaseMode_activate(s2, s2.active_submode)
         IN  BaseMode_activate(s3, Multi)

BaseMulti_deactivate(st) ==
    BaseMode_deactivate(_deactivate_submode(st, FALSE), Multi)

\* mode.activate(manager) and mode.deactivate(manager), by the class of the mode
mode_activate(st, m) ==
    IF m = Multi THEN BaseMulti_activate(st) ELSE BaseMode_activate(st, m)

mode_deactivate(st, m) ==
    IF m = Multi THEN BaseMulti_deactivate(st) ELSE BaseMode_deactivate(st, m)

(***************************************************************************)
(* BaseManager                                                             *)
(***************************************************************************)
current_mode(st) == IF Len(st.modes) = 0 THEN None ELSE Last(st.modes)

on_last_mode_pop(st, m) == [st EXCEPT !.log = Append(@, <<"on_last_mode_pop", m>>)]

activate_mode(st, m) == mode_activate(st, m)

deactivate_mode(st, m) == mode_deactivate(st, m)

\* self.modes.append(mode)
modes_append(st, m) ==
    [st EXCEPT !.modes = Append(@, m), !.pushed = Append(@, Len(@) + 1)]

\* self.modes.pop(): the caller has checked that the stack is not empty
modes_pop(st) ==
    [st EXCEPT !.modes = Front(@), !.pushed = DropRank(@, Len(@))]

\* (mutant) the new mode is activated before the current one is deactivated
push_mode_activate_first(st, m) ==
    LET current == current_mode(st)
        s1 == activate_mode(modes_append(st, m), m)
    IN  IF current # None THEN deactivate_mode(s1, current) ELSE s1

push_mode(st, m) ==
    LET current == current_mode(st)
        s1 == IF current # None THEN deactivate_mode(st, current) ELSE st
        s2 == modes_append(s1, m)
    IN  activate_mode(s2, m)

\* (mutant) the mode left on top is not activated again
pop_mode_no_reactivate(st) ==
    IF Len(st.modes) = 0
    THEN [st EXCEPT !.raised = "IndexError"]
    ELSE LET mode == Last(st.modes)
             s2 == BaseMode_deactivate(modes_pop(st), mode)
         IN  [(IF current_mode(s2) # None THEN s2 ELSE on_last_mode_pop(s2, mode))
                 EXCEPT !.ret = mode]

pop_mode(st) ==
    IF Len(st.modes) = 0
    THEN [st EXCEPT !.raised = "IndexError"]
    ELSE LET mode == Last(st.modes)
             s1 == modes_pop(st)
             s2 == mode_deactivate(s1, mode)
             current == current_mode(s2)
             s3 == IF current # None THEN activate_mode(s2, current)
                                     ELSE on_last_mode_pop(s2, mode)
         IN  Try(s3, LAMBDA s : [s EXCEPT !.ret = mode])

\* (mutant) a swap done as a pop followed by a push
swap_modes_pop_push(st, m) ==
    IF Len(st.modes) = 0
    THEN [st EXCEPT !.raised = "IndexError"]
    ELSE LET s1 == pop_mode(st)
         IN  [push_mode(s1, m) EXCEPT !.ret = s1.ret]

\* (mutant) a swap on an empty stack pushes the mode
swap_modes_empty_pushes(st, m) ==
    IF Len(st.modes) = 0
    THEN push_mode(st, m)
    ELSE LET old_mode == Last(st.modes)
             s2 == deactivate_mode(modes_pop(st), old_mode)
             s4 == activate_mode(modes_append(s2, m), m)
         IN  [s4 EXCEPT !.ret = old_mode]

swap_modes(st, m) ==
    IF Len(st.modes) = 0
    THEN [st EXCEPT !.raised = "IndexError"]
    ELSE LET old_mode == Last(st.modes)
             s1 == modes_pop(st)
             s2 == deactivate_mode(s1, old_mode)
             s3 == modes_append(s2, m)
             s4 == activate_mode(s3, m)
         IN  Try(s4, LAMBDA s : [s EXCEPT !.ret = old_mode])

\* (mutant) the top mode is taken out like any other, without pop_mode
remove_mode_plain(st, m) ==
    IF m \in Range(st.modes)
    THEN LET i == IndexOf(st.modes, m)
         IN  [st EXCEPT !.modes = RemoveAt(@, i), !.pushed = DropRank(@, i)]
    ELSE st

\* (mutant) a mode taken out from below the top is deactivated on the way
remove_mode_deactivates(st, m) ==
    IF current_mode(st) = m
    THEN [pop_mode(st) EXCEPT !.ret = None]
    ELSE IF m \in Range(st.modes)
         THEN LET i == IndexOf(st.modes, m)
              IN  deactivate_mode(
                      [st EXCEPT !.modes = RemoveAt(@, i), !.pushed = DropRank(@, i)], m)
         ELSE st

remove_mode(st, m) ==
    IF current_mode(st) = m
    THEN [pop_mode(st) EXCEPT !.ret = None]
    ELSE IF m \in Range(st.modes)
         THEN LET i == IndexOf(st.modes, m)
              IN  [st EXCEPT !.modes = RemoveAt(@, i), !.pushed = DropRank(@, i)]
         ELSE st

(***************************************************************************)
(* BaseMulti: the submode list.  List positions are Python's (from 0).     *)
(***************************************************************************)
\* list.insert(index, x) for index >= 0: past the end means at the end
list_insert(s, index, x) ==
    LET k == IF index > Len(s) THEN Len(s) ELSE index
    IN  SubSeq(s, 1, k) \o <<x>> \o SubSeq(s, k + 1, Len(s))

\* list.index(x): the position of the first occurrence, the caller has
\* checked that there is one
list_index(s, x) == IndexOf(s, x) - 1

_activate_submode(st, submode) ==
    IF st.active_submode = submode
    THEN st
    ELSE IF submode \notin Range(st.submodes)
    THEN Raise(st, "AssertionError")
    ELSE LET s1 == _deactivate_submode(st, TRUE)
             s2 == _set_active_submode(s1, submode)
         IN  Try(s2, LAMBDA s :
                 IF submode # None
                 THEN IF s.active[Multi] THEN BaseMode_activate(s, submode) ELSE s
                 ELSE IF s.manager[Multi] # None THEN remove_mode(s, Multi) ELSE s)

\* (mutant) past the last submode the list is not wrapped around
activate_next_no_wrap(st, loop) ==
    IF st.submodes = <<>>
    THEN Raise(st, "AssertionError")
    ELSE IF st.active_submode # None /\ st.active_submode \notin Range(st.submodes)
    THEN Raise(st, "ValueError")
    ELSE LET index == IF st.active_submode = None THEN 0
                      ELSE list_index(st.submodes, st.active_submode) + 1
             next_mode == IF index < Len(st.submodes) THEN st.submodes[index + 1]
                          ELSE None
             s1 == _activate_submode(st, next_mode)
         IN  Try(s1, LAMBDA s : [s EXCEPT !.ret = next_mode])

activate_next(st, loop) ==
    IF st.submodes = <<>>
    THEN Raise(st, "AssertionError")
    ELSE IF st.active_submode # None /\ st.active_submode \notin Range(st.submodes)
    THEN Raise(st, "ValueError")
    ELSE LET index == IF st.active_submode = None THEN 0
                      ELSE list_index(st.submodes, st.active_submode) + 1
             next_mode == IF st.active_submode = None THEN st.submodes[1]
                          ELSE IF index < Len(st.submodes) THEN st.submodes[index + 1]
                          ELSE IF loop THEN st.submodes[1]
                          ELSE None
             s1 == _activate_submode(st, next_mode)
         IN  Try(s1, LAMBDA s : [s EXCEPT !.ret = next_mode])

activate_previous(st, loop) ==
    IF st.submodes = <<>>
    THEN Raise(st, "AssertionError")
    ELSE IF st.active_submode # None /\ st.active_submode \notin Range(st.submodes)
    THEN Raise(st, "ValueError")
    ELSE LET index == IF st.active_submode = None THEN 0
                      ELSE list_index(st.submodes, st.active_submode) - 1
             \* submodes[-1] is the last element
             prev_mode == IF st.active_submode = None THEN Last(st.submodes)
                          ELSE IF index >= 0 THEN st.submodes[index + 1]
                          ELSE IF loop THEN Last(st.submodes)
                          ELSE None
             s1 == _activate_submode(st, prev_mode)
         IN  Try(s1, LAMBDA s : [s EXCEPT !.ret = prev_mode])

\* The index argument is <<>> for None and <<i>> for the position i.
add_submode(st, mode, before, index) ==
    IF before # None /\ index # <<>>
    THEN Raise(st, "AssertionError")
    ELSE IF before # None /\ mode \notin Range(st.submodes)
    THEN Raise(st, "ValueError")
    ELSE LET idx == IF before # None THEN <<list_index(st.submodes, mode)>> ELSE index
         IN  IF idx # <<>>
             THEN [st EXCEPT !.submodes = list_insert(@, idx[1], mode)]
             ELSE [st EXCEPT !.submodes = Append(@, mode)]

\* (mutant) the mode is taken out of the list and nothing else is done
remove_submode_list_only(st, mode) ==
    IF mode # None /\ mode \notin Range(st.submodes)
    THEN st
    ELSE LET target == IF mode = None THEN st.active_submode ELSE mode
         IN  IF target \in Range(st.submodes)
             THEN [st EXCEPT !.submodes = RemoveAt(@, IndexOf(@, target))]
             ELSE Raise(st, "ValueError")

remove_submode(st, mode) ==
    IF mode # None /\ mode \notin Range(st.submodes)
    THEN st
    ELSE LET target == IF mode = None THEN st.active_submode ELSE mode
             s1 == activate_next(st, TRUE)
             next_mode == s1.ret
             s2 == Try(s1, LAMBDA s :
                       IF target \in Range(s.submodes)
                       THEN [s EXCEPT !.submodes = RemoveAt(@, IndexOf(@, target))]
                       ELSE Raise(s, "ValueError"))
             s3 == Try(s2, LAMBDA s :
                       IF next_mode = target
                       THEN Try(IF s.manager[Multi] # None THEN remove_mode(s, Multi)
                                                             ELSE s,
                                LAMBDA r : _deactivate_submode(r, TRUE))
                       ELSE s)
         IN  Try(s3, LAMBDA s : [s EXCEPT !.ret = None])

activate_subnode(st, mode, before, index) ==
    LET s1 == IF mode \notin Range(st.submodes)
              THEN add_submode(st, mode, before, index)
              ELSE st
    IN  Try(s1, LAMBDA s :
            IF s.active_submode # mode THEN _activate_submode(s, mode) ELSE s)

(***************************************************************************)
(* The state machine of the mode manager.                                  *)
(***************************************************************************)
\* The state a call starts from: the objects as they are, nothing logged,
\* returned or raised yet.
MState ==
    [modes |-> modes, pushed |-> pushed, active |-> active, manager |-> manager,
     submodes |-> submodes, active_submode |-> active_submode, step_rate |-> step_rate,
     log |-> <<>>, ret |-> None, raised |-> None]

MSet(st, name, arg) ==
    /\ op' = [name |-> name, arg |-> arg]
    /\ modes' = st.modes
    /\ pushed' = st.pushed
    /\ active' = st.active
    /\ manager' = st.manager
    /\ submodes' = st.submodes
    /\ active_submode' = st.active_submode
    /\ step_rate' = st.step_rate
    /\ log' = st.log
    /\ ret' = st.ret
    /\ raised' = st.raised
    /\ UNCHANGED <<evars, svars>>

\* The submodes a composite is constructed with: BaseMulti(*submodes).
ConstructorSubmodes == {<<>>, <<"A">>, <<"A", "B">>, <<"A", "B", "C">>}

MInit ==
    /\ modes = <<>>
    /\ pushed = <<>>
    /\ active = [m \in AllModes |-> FALSE]
    /\ manager = [m \in AllModes |-> None]
    /\ submodes \in ConstructorSubmodes
    /\ active_submode = None
    /\ step_rate = None
    /\ op = [name |-> "init", arg |-> None]
    /\ ret = None
    /\ raised = None

PushMode(m) ==
    /\ Len(modes) < MaxDepth
    /\ MSet(push_mode(MState, m), "push_mode", m)

PopMode == MSet(pop_mode(MState), "pop_mode", None)

SwapModes(m) == MSet(swap_modes(MState, m), "swap_modes", m)

RemoveMode(m) == MSet(remove_mode(MState, m), "remove_mode", m)

MNext ==
    \/ \E m \in Modes : PushMode(m)
    \/ PopMode
    \/ \E m \in Modes : SwapModes(m)
    \/ \E m \in Modes : RemoveMode(m)

(***************************************************************************)
(* Direct calls of a plain mode's activate and deactivate.                 *)
(***************************************************************************)
ModeActivate(m, mode_manager) ==
    MSet(BaseMode_activate_by(MState, m, mode_manager), "activate", m)

ModeDeactivate(m) == MSet(mode_deactivate(MState, m), "deactivate", m)

CallsNext ==
    \/ MNext
    \/ \E m \in Modes, mode_manager \in {Mgr, Mgr2} : ModeActivate(m, mode_manager)
    \/ \E m \in Modes : ModeDeactivate(m)

(***************************************************************************)
(* The state machine of the composite mode and the manager it is pushed    *)
(* on.  The stack holds the composite and a plain mode that is not one of  *)
(* its submodes; the submodes are the plain modes of Modes.                *)
(***************************************************************************)
StackModes == {Multi, Other}

\* The modes that are made submodes of the composite while it shares a
\* stack with another mode.
MultiSubmodes == {"A", "B"}

\* The values of the "before" and "index" arguments.
Befores == {None} \cup Modes

Indexes == {<<>>} \cup {<<i>> : i \in 0..MaxIndex}

\* The (before, index) pairs of a call: neither, one of the two, or both.
Places ==
    {<<b, <<>>>> : b \in Befores} \cup {<<None, i>> : i \in Indexes}
        \cup {<<"A", <<0>>>>}

LoopArg(loop) == IF loop THEN "loop=True" ELSE "loop=False"

\* A mode is added to the list once: the class does not handle several
\* instances of the same submode (the TODO in remove_submode).
AddSubmode(mode, before, index) ==
    /\ mode \notin Range(submodes)
    /\ MSet(add_submode(MState, mode, before, index), "add_submode", mode)

RemoveSubmode(mode) == MSet(remove_submode(MState, mode), "remove_submode", mode)

ActivateSubnode(mode, before, index) ==
    /\ MSet(activate_subnode(MState, mode, before, index), "activate_subnode", mode)

ActivateNext(loop) ==
    MSet(activate_next(MState, loop), "activate_next", LoopArg(loop))

ActivatePrevious(loop) ==
    MSet(activate_previous(MState, loop), "activate_previous", LoopArg(loop))

\* composite.clear_subnode()
ClearSubnode == MSet(clear_subnode(MState), "clear_subnode", None)

\* composite.activate(manager) and composite.deactivate(manager), called
\* directly with the manager that owns the stack
MultiActivate == MSet(BaseMulti_activate(MState), "activate", Multi)

MultiDeactivate == MSet(BaseMulti_deactivate(MState), "deactivate", Multi)

\* manager.activate_mode(composite) and manager.deactivate_mode(composite)
ActivateMode(m) == MSet(activate_mode(MState, m), "activate_mode", m)

DeactivateMode(m) == MSet(deactivate_mode(MState, m), "deactivate_mode", m)

\* The calls that edit the submode list or move the active submode around
\* it, with loop=True.
SubmodesNext ==
    \/ \E mode \in Modes, place \in Places : AddSubmode(mode, place[1], place[2])
    \/ \E mode \in Befores : RemoveSubmode(mode)
    \/ \E mode \in Modes, place \in Places :
            ActivateSubnode(mode, place[1], place[2])
    \/ ActivateNext(TRUE)
    \/ ActivatePrevious(TRUE)

\* Every call of the composite, on its own or pushed on a manager.
CompositeNext ==
    \/ \E mode \in Modes, place \in Places : AddSubmode(mode, place[1], place[2])
    \/ \E mode \in Befores : RemoveSubmode(mode)
    \/ \E mode \in Modes, place \in Places :
            ActivateSubnode(mode, place[1], place[2])
    \/ \E loop \in BOOLEAN : ActivateNext(loop)
    \/ \E loop \in BOOLEAN : ActivatePrevious(loop)
    \/ ClearSubnode
    \/ MultiActivate
    \/ MultiDeactivate
    \/ ActivateMode(Multi)
    \/ DeactivateMode(Multi)

\* The calls of the manager and the calls of the composite that edit the
\* submode list or move the active submode around it.
ManagedNext ==
    \/ \E m \in StackModes : Len(modes) < MaxMultiDepth /\ PushMode(m)
    \/ PopMode
    \/ \E m \in StackModes : SwapModes(m)
    \/ \E m \in StackModes : RemoveMode(m)
    \/ \E mode \in MultiSubmodes, place \in Places :
            AddSubmode(mode, place[1], place[2])
    \/ \E mode \in MultiSubmodes \cup {None} : RemoveSubmode(mode)
    \/ \E mode \in MultiSubmodes, place \in Places :
            ActivateSubnode(mode, place[1], place[2])
    \/ \E loop \in BOOLEAN : ActivateNext(loop)
    \/ \E loop \in BOOLEAN : ActivatePrevious(loop)

\* Every call of the manager and of the composite.
MultiNext ==
    \/ ManagedNext
    \/ ClearSubnode
    \/ MultiActivate
    \/ MultiDeactivate
    \/ ActivateMode(Multi)
    \/ DeactivateMode(Multi)

(***************************************************************************)
(* Properties of the mode manager.                                         *)
(***************************************************************************)
Hooks(l, name) == {l[k][2] : k \in {j \in 1..Len(l) : l[j][1] = name}}

\* C1: after every call of push_mode, pop_mode, swap_modes and remove_mode a
\* mode's active flag is true exactly if the mode is the last element of the
\* stack; with an empty stack no mode is active.
C1_ActiveIffTop ==
    \A m \in Modes : active[m] <=> (Len(modes) > 0 /\ m = Last(modes))

\* C1 witness: after a remove_mode call the stack holds one mode twice, that
\* mode is active, and a mode that was managed earlier is inactive.
C1_Witness ==
    /\ op.name = "remove_mode"
    /\ Len(modes) = 2
    /\ modes[1] = modes[2]
    /\ active[modes[2]]
    /\ \E m \in Modes : m # modes[2] /\ manager[m] = Mgr /\ ~active[m]

\* C6: push_mode(B) while another mode A is on top deactivates A, then
\* activates B, and leaves B on top and active and A inactive; pop_mode with
\* B on top of A returns B, deactivates B, then activates A, and leaves A on
\* top and active; and every pop_mode returns the entry of the stack that
\* was appended last among those still on it.
C6_PushThenPop ==
    [][/\ \A a, b \in Modes :
            (a # b /\ current_mode(MState) = a /\ PushMode(b)) =>
                /\ log' = << <<"on_deactivate", a>>, <<"on_activate", b>> >>
                /\ Last(modes') = b
                /\ active'[b] /\ ~active'[a]
       /\ \A a, b \in Modes :
            (/\ a # b /\ Len(modes) >= 2
             /\ modes[Len(modes)] = b /\ modes[Len(modes) - 1] = a
             /\ PopMode) =>
                /\ ret' = b
                /\ log' = << <<"on_deactivate", b>>, <<"on_activate", a>> >>
                /\ Last(modes') = a
                /\ active'[a] /\ ~active'[b]
       /\ (Len(modes) > 0 /\ PopMode) =>
                /\ \A k \in 1..Len(modes) : pushed[k] = Len(modes) => ret' = modes[k]
                /\ modes' = Front(modes)
      ]_vars

\* C6 witness: pop_mode has returned B from on top of A, deactivating B and
\* then activating A.
C6_Witness ==
    /\ op.name = "pop_mode"
    /\ ret = "B"
    /\ log = << <<"on_deactivate", "B">>, <<"on_activate", "A">> >>
    /\ Len(modes) = 2 /\ Last(modes) = "A" /\ active["A"] /\ ~active["B"]

\* C7 as stated: swap_modes(new) on a non-empty stack returns the previous
\* top mode, inactive; new is the active top and the depth is unchanged; the
\* activation hook of the mode beneath the old top does not run; and
\* on_last_mode_pop does not run.
C7_SwapAsStated ==
    [][\A m \in Modes : (Len(modes) > 0 /\ SwapModes(m)) =>
            /\ ret' = Last(modes)
            /\ ~active'[ret']
            /\ Last(modes') = m /\ active'[m]
            /\ Len(modes') = Len(modes)
            /\ Len(modes) >= 2 => modes[Len(modes) - 1] \notin Hooks(log', "on_activate")
            /\ Hooks(log', "on_last_mode_pop") = {}
      ]_vars

\* C7 amended: swap_modes(new) on a non-empty stack returns the previous top
\* mode, whose deactivation hook has run first (it is inactive on return
\* unless it is new itself); new is the active top and the depth is
\* unchanged; the only activation hook that runs is new's, after the
\* deactivation; on_last_mode_pop does not run; the modes beneath stay as
\* they were.
C7_Swap ==
    [][\A m \in Modes : (Len(modes) > 0 /\ SwapModes(m)) =>
            /\ ret' = Last(modes)
            /\ ret' # m => ~active'[ret']
            /\ log' = << <<"on_deactivate", Last(modes)>>, <<"on_activate", m>> >>
            /\ modes' = Append(Front(modes), m)
            /\ active'[m]
            /\ \A x \in Modes \ {m, Last(modes)} : active'[x] = active[x]
      ]_vars

\* C7 witness: swap_modes has replaced the only mode of the stack by another
\* one: the old mode is returned inactive and on_last_mode_pop has not run.
C7_Witness ==
    /\ op.name = "swap_modes"
    /\ raised = None
    /\ Len(modes) = 1
    /\ ret \in Modes /\ ret # Last(modes) /\ ~active[ret] /\ active[Last(modes)]
    /\ log = << <<"on_deactivate", ret>>, <<"on_activate", Last(modes)>> >>

\* a call that pops the top mode: pop_mode, or remove_mode of the top mode
PopsTop == PopMode \/ \E m \in Modes : current_mode(MState) = m /\ RemoveMode(m)

\* C8: on_last_mode_pop runs in a call exactly if the call pops the top mode
\* (pop_mode, or remove_mode of the top mode) and leaves the stack empty; it
\* is then given the popped mode and runs after that mode's deactivation
\* hook.  A pop that leaves a mode on the stack activates that mode instead.
C8_LastModePop ==
    [][/\ (Hooks(log', "on_last_mode_pop") # {}) <=> (PopsTop /\ Len(modes) = 1)
       /\ (PopsTop /\ Len(modes) = 1) =>
            /\ log' = << <<"on_deactivate", Last(modes)>>,
                         <<"on_last_mode_pop", Last(modes)>> >>
            /\ modes' = <<>>
       /\ (PopsTop /\ Len(modes) >= 2) =>
            /\ log' = << <<"on_deactivate", Last(modes)>>,
                         <<"on_activate", modes[Len(modes) - 1]>> >>
            /\ Last(modes') = modes[Len(modes) - 1]
            /\ active'[Last(modes')]
      ]_vars

\* C8 witness: remove_mode of the only mode on the stack has emptied it; the
\* mode was deactivated and then handed to on_last_mode_pop.
C8_Witness ==
    /\ op.name = "remove_mode"
    /\ modes = <<>>
    /\ log = << <<"on_deactivate", op.arg>>, <<"on_last_mode_pop", op.arg>> >>
    /\ ~active[op.arg]

\* C9: pop_mode and swap_modes on an empty stack raise an error and change
\* nothing: the stack stays empty, no hook runs, and the mode given to
\* swap_modes is neither on the stack nor active.
C9_EmptyStack ==
    [][(Len(modes) = 0 /\ (PopMode \/ \E m \in Modes : SwapModes(m))) =>
            /\ raised' = "IndexError"
            /\ ret' = None
            /\ log' = <<>>
            /\ modes' = <<>>
            /\ UNCHANGED mvars
      ]_vars

\* C9 witness: swap_modes has failed on a stack emptied by earlier calls.
C9_Witness ==
    /\ op.name = "swap_modes"
    /\ raised = "IndexError"
    /\ modes = <<>>
    /\ manager[op.arg] = Mgr /\ ~active[op.arg]

\* C10: remove_mode(m) for a mode that is on the stack but is not the top
\* takes one occurrence of m out, runs no hook and raises nothing; the top
\* mode, every active flag and the order of the other entries stay as they
\* were.  remove_mode(m) for a mode not on the stack changes nothing and
\* raises nothing.
C10_RemoveBelowTop ==
    [][\A m \in Modes : (current_mode(MState) # m /\ RemoveMode(m)) =>
            /\ log' = <<>>
            /\ raised' = None
            /\ active' = active
            /\ manager' = manager
            /\ IF m \in Range(modes)
               THEN /\ \E i \in 1..Len(modes) : modes[i] = m /\ modes' = RemoveAt(modes, i)
                    /\ Last(modes') = Last(modes)
               ELSE modes' = modes
      ]_vars

\* C10 witness: remove_mode has run without any hook and has left two modes
\* on the stack, the top one active; its argument, a mode that was on the
\* stack earlier, is inactive and not on the stack.
C10_Witness ==
    /\ op.name = "remove_mode"
    /\ log = <<>>
    /\ raised = None
    /\ Len(modes) = 2
    /\ op.arg \notin Range(modes)
    /\ manager[op.arg] = Mgr /\ ~active[op.arg]
    /\ active[Last(modes)]

(***************************************************************************)
(* Component stores.  The component class is not part of the sources at    *)
(* hand: a store is the mapping of the specification (entity id -> record) *)
(* together with the entity_id_set attribute the manager reads.            *)
(***************************************************************************)
\* The names stores are registered under.
Names == {"position", "shape"}

\* The sets of names the constructor is given stores for
\* (ComponentEntityManager(**components)).
ConstructorNames == {{"position"}, {"position", "shape"}}

\* The records a store can hold for an entity.
Recs == {"r1", "r2"}

\* The record that is attached to entities in the store of each name.
RecordOf == [n \in Names |-> IF n = "position" THEN "r1" ELSE "r2"]

\* Bound on the number of entity ids issued.
MaxEntities == 2

Ids == 1..MaxEntities

EmptyStore == [data |-> [i \in {} |-> None], entity_id_set |-> {}]

\* id in com
store_contains(com, id) == id \in DOMAIN com.data

\* com[id]: the caller has checked that the record exists
store_getitem(com, id) == com.data[id]

\* com.set(id, rec): attach a record to an entity
store_set(com, id, rec) ==
    [data |-> [i \in DOMAIN com.data \cup {id} |-> IF i = id THEN rec ELSE com.data[i]],
     entity_id_set |-> com.entity_id_set \cup {id}]

\* del com[id]: the caller has checked that the record exists
store_delitem(com, id) ==
    [data |-> [i \in DOMAIN com.data \ {id} |-> com.data[i]],
     entity_id_set |-> com.entity_id_set \ {id}]

(***************************************************************************)
(* ComponentEntityManager: entities                                        *)
(***************************************************************************)
\* manager.__contains__
manager_contains(st, id) == id \in st.entities

\* ComponentMap.__iter__ returns self.itervalues().  dict has that method on
\* Python 2 only, and the package is written for Python 2 and 3 alike (six,
\* future): on an interpreter without it the iteration raises AttributeError.
ComponentMap_iter_fails(st) == ~st.dict_has_itervalues

\* the body of "for com in self.components: try: del com[id] except KeyError: pass"
purge_components(st, id) ==
    [st EXCEPT !.components =
        [n \in DOMAIN @ |-> IF store_contains(@[n], id) THEN store_delitem(@[n], id)
                                                        ELSE @[n]]]

\* (mutant) an id that is not live is ignored without an error
manager_delitem_quiet(st, id) ==
    IF id \in st.entities
    THEN IF ComponentMap_iter_fails(st)
         THEN [st EXCEPT !.raised = "AttributeError"]
         ELSE [purge_components(st, id) EXCEPT !.entities = @ \ {id}]
    ELSE st

manager_delitem(st, id) ==
    IF id \in st.entities
    THEN IF ComponentMap_iter_fails(st)
         THEN [st EXCEPT !.raised = "AttributeError"]
         ELSE [purge_components(st, id) EXCEPT !.entities = @ \ {id}]
    ELSE [st EXCEPT !.raised = "KeyError"]

\* (mutant) the lowest id that is not live is issued again (a freelist)
new_entity_reuse(st) ==
    LET id == CHOOSE i \in 1..(st.entity_id + 1) :
                  i \notin st.entities /\ \A j \in 1..(i - 1) : j \in st.entities
    IN  [st EXCEPT !.entity_id = @ + 1,
                   !.entities = @ \cup {id},
                   !.issued = @ \cup {id},
                   !.ret = id]

new_entity(st) ==
    LET id == st.entity_id + 1
    IN  [st EXCEPT !.entity_id = id,
                   !.entities = @ \cup {id},
                   !.issued = @ \cup {id},
                   !.ret = id]

(***************************************************************************)
(* iter_components is a generator function: the call returns a generator   *)
(* and runs nothing; the body runs, from one yield to the next, in the     *)
(* next() calls of the caller, and any other call can come in between.     *)
(* The generator holds the store objects it has looked up, which stay the  *)
(* same objects when another store is registered under their name.         *)
(***************************************************************************)
\* The generator record: where its body stands ("none": no generator yet),
\* the names it was called with, for each name the store object it holds
\* (<<>>: the store still registered under the name, <<store>>: a store that
\* has been replaced in the component map since), and the state of the set
\* iterator of its for loop: the last id it visited and the size the set had
\* when the loop began.
NoGen == [pc |-> "none", names |-> <<>>, held |-> <<>>, pos |-> 0, used |-> 0]

Finished == [pc |-> "finished", names |-> <<>>, held |-> <<>>, pos |-> 0, used |-> 0]

\* The k-th store object of the generator's "components" list.
held_store(st, k) ==
    IF st.gen.held[k] = <<>> THEN st.components[st.gen.names[k]]
                             ELSE st.gen.held[k][1]

\* component.set_manager(manager), for a store whose class defines it
store_set_manager(st) == [st EXCEPT !.log = Append(@, <<"set_manager", "store">>)]

\* ComponentMap.__setitem__(name, component): dict.__setitem__, then "if
\* hasattr(component, 'set_manager'): component.set_manager(self._manager)";
\* has_set_manager tells whether the class of component defines set_manager.
\* A suspended generator keeps the store object that was registered under
\* the name.
ComponentMap_setitem(st, name, component, has_set_manager) ==
    LET g == st.gen
        kept == IF g.pc = "suspended"
                THEN [g EXCEPT !.held =
                        [k \in 1..Len(g.names) |->
                            IF g.names[k] = name /\ g.held[k] = <<>>
                            THEN <<st.components[name]>>
                            ELSE g.held[k]]]
                ELSE g
        s1 == [st EXCEPT !.gen = kept,
                         !.components = [n \in DOMAIN @ \cup {name} |->
                                            IF n = name THEN component ELSE @[n]]]
    IN  IF has_set_manager THEN store_set_manager(s1) ELSE s1

\* ComponentMap.__init__(manager, components): "for name, comp in
\* components.items(): self[name] = comp"; kw maps each name to whether the
\* class of its (empty) store defines set_manager.
RECURSIVE ComponentMap_init(_, _, _)
ComponentMap_init(st, kw, todo) ==
    IF todo = {} THEN st
    ELSE LET name == CHOOSE n \in todo : TRUE
         IN  ComponentMap_init(
                 ComponentMap_setitem(st, name, EmptyStore, kw[name]),
                 kw, todo \ {name})

\* The entity ids left in entity_ids after "for comp in components[1:]:
\* entity_ids &= comp.entity_id_set".
narrowed_ids(st, names) ==
    {i \in st.components[names[1]].entity_id_set :
        \A k \in 2..Len(names) : i \in st.components[names[k]].entity_id_set}

\* entity_ids is the first store's own set object and &= narrows a set in
\* place: the first store's entity_id_set is what is left of it.
iter_components_narrow(st, names) ==
    [st EXCEPT !.components[names[1]].entity_id_set = narrowed_ids(st, names)]

\* yield [comp[id] for comp in components]; the id is kept beside the
\* yielded list to tell which entity it was yielded for.
yielded(st, id) ==
    [id |-> id,
     recs |-> [k \in 1..Len(st.gen.names) |-> store_getitem(held_store(st, k), id)]]

\* iter_components(*names): the call itself
iter_components(st, names) ==
    [st EXCEPT !.gen = [pc |-> "created", names |-> names, held |-> <<>>,
                        pos |-> 0, used |-> 0],
               !.ret = "generator"]

\* One step of "for id in entity_ids: yield [comp[id] for comp in
\* components]".  A set iterator raises RuntimeError when the size of its set
\* is not the one the loop began with; it visits the entries of the hash
\* table in table order, which for the small integers that entity ids are is
\* ascending order, from the entry it visited last.
generator_advance(st) ==
    LET entity_ids == held_store(st, 1).entity_id_set
        rest == {i \in entity_ids : i > st.gen.pos}
    IN  IF Cardinality(entity_ids) # st.gen.used
        THEN [st EXCEPT !.raised = "RuntimeError", !.gen = Finished]
        ELSE IF rest = {}
        THEN [st EXCEPT !.raised = "StopIteration", !.gen = Finished]
        ELSE LET id == CHOOSE i \in rest : \A j \in rest : i <= j
             IN  IF \E k \in 1..Len(st.gen.names) : ~store_contains(held_store(st, k), id)
                 THEN [st EXCEPT !.raised = "KeyError", !.gen = Finished]
                 ELSE [st EXCEPT !.gen.pos = id, !.ret = yielded(st, id)]

\* The first next(): the body runs from its beginning to the first yield
generator_start(st) ==
    LET names == st.gen.names
    IN  IF \E k \in 1..Len(names) : names[k] \notin DOMAIN st.components
        THEN [st EXCEPT !.raised = "KeyError", !.gen = Finished]
        ELSE LET s1 == iter_components_narrow(st, names)
                 s2 == [s1 EXCEPT !.gen =
                           [pc |-> "suspended", names |-> names,
                            held |-> [k \in 1..Len(names) |-> <<>>],
                            pos |-> 0,
                            used |-> Cardinality(narrowed_ids(st, names))]]
             IN  generator_advance(s2)

\* next(g)
generator_next(st) ==
    IF st.gen.pc = "created" THEN generator_start(st)
    ELSE IF st.gen.pc = "suspended" THEN generator_advance(st)
    ELSE [st EXCEPT !.raised = "StopIteration"]

(***************************************************************************)
(* ComponentEntityManager: systems                                         *)
(***************************************************************************)
Systems == {"S1", "S2", "S3"}

\* The systems that define set_manager.
HasSetManager == {"S1", "S2"}

\* Bound on the number of registered systems.
MaxSystems == 3

\* Bound on the manager clock.
MaxTime == 3

\* The time steps a run is called with.
Dts == {1, 2}

set_manager(st, s) ==
    IF s \in HasSetManager THEN [st EXCEPT !.log = Append(@, <<"set_manager", s>>)]
                           ELSE st

\* "for system in self.systems: if hasattr(system, "set_manager"): ..." of
\* the constructor
RECURSIVE set_managers(_, _)
set_managers(st, todo) ==
    IF todo = <<>> THEN st
    ELSE set_managers(set_manager(st, Head(todo)), Tail(todo))

add_system(st, s) ==
    [set_manager(st, s) EXCEPT !.systems = Append(@, s),
                                !.registered = Append(@, Len(@) + 1)]

remove_system(st, s) ==
    IF s \in Range(st.systems)
    THEN LET i == IndexOf(st.systems, s)
         IN  [st EXCEPT !.systems = RemoveAt(@, i), !.registered = DropRank(@, i)]
    ELSE [st EXCEPT !.raised = "ValueError"]

\* system.run(dt): the log keeps the system, dt and the manager clock it sees
system_run(st, s, dt) == [st EXCEPT !.log = Append(@, <<"run", s, dt, st.time>>)]

RECURSIVE run_systems(_, _, _)
run_systems(st, todo, dt) ==
    IF todo = <<>> THEN st
    ELSE run_systems(system_run(st, Head(todo), dt), Tail(todo), dt)

\* (mutant) the clock is advanced after the systems have run
run_clock_last(st, dt) ==
    [run_systems(st, st.systems, dt) EXCEPT !.time = @ + dt]

run(st, dt) ==
    LET s1 == [st EXCEPT !.time = @ + dt]
    IN  run_systems(s1, s1.systems, dt)

(***************************************************************************)
(* The state machine of the component entity manager.                      *)
(***************************************************************************)
EState ==
    [entities |-> entities, entity_id |-> entity_id, issued |-> issued,
     components |-> components, gen |-> gen,
     dict_has_itervalues |-> dict_has_itervalues,
     log |-> <<>>, ret |-> None, raised |-> None]

ESet(st, name, arg) ==
    /\ op' = [name |-> name, arg |-> arg]
    /\ entities' = st.entities
    /\ entity_id' = st.entity_id
    /\ issued' = st.issued
    /\ components' = st.components
    /\ gen' = st.gen
    /\ dict_has_itervalues' = st.dict_has_itervalues
    /\ log' = st.log
    /\ ret' = st.ret
    /\ raised' = st.raised
    /\ UNCHANGED <<mvars, svars>>

\* The component keyword arguments the constructor is given: each name with
\* whether the class of its store defines set_manager.
ConstructorComponents == UNION {[names -> BOOLEAN] : names \in ConstructorNames}

\* The component map ComponentMap(self, components) builds, with the
\* set_manager calls it makes.
NewComponentMap(kw) ==
    ComponentMap_init([components |-> [n \in {} |-> EmptyStore], gen |-> NoGen,
                       log |-> <<>>], kw, DOMAIN kw)

EInit(kw) ==
    /\ entities = {}
    /\ entity_id = 0
    /\ issued = {}
    /\ components = NewComponentMap(kw).components
    /\ gen = NoGen
    /\ dict_has_itervalues \in BOOLEAN

NewEntity ==
    /\ entity_id < MaxEntities
    /\ ESet(new_entity(EState), "new_entity", None)

DelEntity(id) == ESet(manager_delitem(EState, id), "delitem", id)

\* a record is attached to a live entity in a registered store
SetComponent(n, id, rec) ==
    /\ n \in DOMAIN components
    /\ id \in entities
    /\ ESet([EState EXCEPT !.components[n] = store_set(@, id, rec)], "set", <<n, id>>)

\* The name lists iter_components is called with.
NameLists == {<<"position">>, <<"position", "shape">>}

\* g = manager.iter_components(*names)
IterComponents(names) ==
    ESet(iter_components(EState, names), "iter_components", names)

\* next(g), for the generator of the last iter_components call
GeneratorNext ==
    /\ gen.pc # "none"
    /\ ESet(generator_next(EState), "next", None)

\* manager.components[name] = a new, empty store of a class that defines
\* set_manager or of one that does not
SetItem(name, has_set_manager) ==
    ESet(ComponentMap_setitem(EState, name, EmptyStore, has_set_manager),
         "setitem", name)

ENext ==
    \/ NewEntity
    \/ \E id \in Ids : DelEntity(id)
    \/ \E n \in Names, id \in Ids : SetComponent(n, id, RecordOf[n])
    \/ \E names \in NameLists : IterComponents(names)
    \/ GeneratorNext
    \/ \E name \in Names, has_set_manager \in BOOLEAN :
           SetItem(name, has_set_manager)

SState ==
    [systems |-> systems, registered |-> registered, time |-> time,
     log |-> <<>>, ret |-> None, raised |-> None]

SSet(st, name, arg) ==
    /\ op' = [name |-> name, arg |-> arg]
    /\ systems' = st.systems
    /\ registered' = st.registered
    /\ time' = st.time
    /\ log' = st.log
    /\ ret' = st.ret
    /\ raised' = st.raised
    /\ UNCHANGED <<mvars, evars>>

\* The tuples of systems the constructor is given.
ConstructorSystems == {<<>>, <<"S1">>, <<"S2", "S1">>}

\* ComponentEntityManager(systems=..., **components): after the component
\* map is built, the constructor hands the manager to every system that
\* defines set_manager, in the order of the tuple.
SInit(kw) ==
    /\ systems \in ConstructorSystems
    /\ registered = [k \in 1..Len(systems) |-> k]
    /\ time = 0
    /\ log = set_managers([log |-> NewComponentMap(kw).log], systems).log

AddSystem(s) ==
    /\ Len(systems) < MaxSystems
    /\ SSet(add_system(SState, s), "add_system", s)

RemoveSystem(s) == SSet(remove_system(SState, s), "remove_system", s)

Run(dt) ==
    /\ time + dt <= MaxTime
    /\ SSet(run(SState, dt), "run", dt)

SNext ==
    \/ \E s \in Systems : AddSystem(s)
    \/ \E s \in Systems : RemoveSystem(s)
    \/ \E dt \in Dts : Run(dt)

(***************************************************************************)
(* Properties of a plain mode's activate and deactivate.                   *)
(***************************************************************************)
\* C18: activate(manager) on a plain mode that is active invokes no hook and
\* leaves the manager reference and the active flag as they are; on an
\* inactive mode it invokes on_activate once and sets both; and in every
\* call a mode that goes from inactive to active has on_activate invoked
\* exactly once.
C18_ActivateOnce ==
    [][/\ \A m \in Modes, g \in {Mgr, Mgr2} :
            ModeActivate(m, g) =>
                IF active[m]
                THEN log' = <<>> /\ UNCHANGED <<active, manager, modes>>
                ELSE /\ log' = << <<"on_activate", m>> >>
                     /\ active' = [active EXCEPT ![m] = TRUE]
                     /\ manager' = [manager EXCEPT ![m] = g]
       /\ \A m \in Modes :
            (~active[m] /\ active'[m]) =>
                Cardinality({k \in 1..Len(log') : log'[k] = <<"on_activate", m>>}) = 1
      ]_vars

\* C18 witness: activate was called, with the other manager, on a mode that
\* is active on top of the stack; nothing was invoked and the mode still
\* refers to the manager that owns the stack.
C18_Witness ==
    /\ op.name = "activate"
    /\ log = <<>>
    /\ modes # <<>>
    /\ op.arg = Last(modes)
    /\ active[op.arg]
    /\ manager[op.arg] = Mgr
    /\ \E m \in Modes : manager[m] = Mgr2

\* C19 as stated: deactivate(manager) on a mode that is not active invokes
\* no hook and leaves the mode's state as it is.
C19_DeactivateInactiveAsStated ==
    [][\A m \in Modes :
          (~active[m] /\ ModeDeactivate(m)) =>
              log' = <<>> /\ UNCHANGED <<active, manager>>
      ]_vars

(***************************************************************************)
(* Properties of the composite mode.                                       *)
(***************************************************************************)
\* C11: after any sequence of manager and composite calls, an active
\* composite has exactly one active submode and it is active_submode; an
\* inactive composite has no active submode.
C11_OneActiveSubmode ==
    /\ active[Multi] =>
           /\ active_submode \in Range(submodes)
           /\ \A s \in Range(submodes) : active[s] <=> s = active_submode
    /\ ~active[Multi] => \A s \in Range(submodes) : ~active[s]

\* The submode activate_next(loop=True) is to move to: the first one when
\* there is no active submode, else the one after the active submode in list
\* order, the first one again after the last.
FollowingSubmode ==
    IF active_submode = None THEN submodes[1]
    ELSE LET i == IndexOf(submodes, active_submode)
         IN  IF i < Len(submodes) THEN submodes[i + 1] ELSE submodes[1]

\* C12: on a composite that has submodes, activate_next(loop=True) returns
\* the first submode when none is active and, when the active submode is in
\* the list, the submode following it, wrapping from the last to the first;
\* the submode returned is the active submode afterwards, and is active when
\* the composite is.
C12_ActivateNextLoops ==
    [][(/\ ActivateNext(TRUE)
        /\ submodes # <<>>
        /\ active_submode \in Range(submodes) \cup {None}) =>
            /\ raised' = None
            /\ ret' = FollowingSubmode
            /\ active_submode' = ret'
            /\ submodes' = submodes
            /\ active[Multi] => active'[ret']
      ]_vars

\* C12 witness: with submodes [A, B, C] on an active composite, a call has
\* wrapped around from C to A.
C12_Witness ==
    /\ op = [name |-> "activate_next", arg |-> LoopArg(TRUE)]
    /\ submodes = <<"A", "B", "C">>
    /\ ret = "A"
    /\ active_submode = "A"
    /\ log = << <<"on_deactivate", "C">>, <<"on_activate", "A">> >>

\* C13 as stated: activate_next(loop=False) while the last submode is the
\* active submode deactivates that submode, takes the composite off its
\* manager's stack and returns None, without an error.
C13_NextPastLastAsStated ==
    [][(/\ ActivateNext(FALSE)
        /\ submodes # <<>>
        /\ active_submode = Last(submodes)) =>
            /\ raised' = None
            /\ ret' = None
            /\ ~active'[Last(submodes)]
            /\ Multi \notin Range(modes')
      ]_vars

\* C14 as stated: for a composite on the manager's stack whose submode list
\* is exactly [X], remove_submode() and remove_submode(X) leave the list
\* empty, X inactive, active_submode None, and the composite off the stack
\* and inactive.
C14_RemoveOnlyAsStated ==
    [][\A mode \in Befores :
          (/\ RemoveSubmode(mode)
           /\ Len(submodes) = 1
           /\ mode \in {None, submodes[1]}
           /\ Multi \in Range(modes)) =>
              /\ submodes' = <<>>
              /\ ~active'[submodes[1]]
              /\ active_submode' = None
              /\ Multi \notin Range(modes')
              /\ ~active'[Multi]
      ]_vars

\* C15 as stated: remove_submode takes the composite off its manager's stack
\* only when the removed submode was the only one; when the list has other
\* submodes left after the removal, the composite stays on the stack.
C15_StaysWhileSubmodesAsStated ==
    [][\A mode \in Befores :
          (/\ RemoveSubmode(mode)
           /\ Multi \in Range(modes)
           /\ submodes' # <<>>) =>
              modes' = modes
      ]_vars

\* C16: pushing another mode above an active composite whose active submode
\* is S deactivates S (then the composite) and keeps active_submode S;
\* popping that mode from above the composite, with S deactivated in
\* between, activates S again, not the first submode, and active_submode is
\* still S; no call of the manager
\* changes an active_submode that is set; a composite activated with no
\* active submode activates its first submode.
C16_StickySubmode ==
    [][/\ \A s \in Modes :
            (/\ current_mode(MState) = Multi
             /\ active[Multi]
             /\ active_submode = s
             /\ PushMode(Other)) =>
                /\ log' = << <<"on_deactivate", s>>, <<"on_deactivate", Multi>>,
                             <<"on_activate", Other>> >>
                /\ ~active'[s] /\ ~active'[Multi]
                /\ active_submode' = s
       /\ \A s \in Modes :
            (/\ Len(modes) >= 2
             /\ modes[Len(modes)] = Other /\ modes[Len(modes) - 1] = Multi
             /\ active[Other] /\ ~active[Multi] /\ ~active[s]
             /\ active_submode = s /\ s \in Range(submodes)
             /\ PopMode) =>
                /\ log' = << <<"on_deactivate", Other>>, <<"on_activate", s>>,
                             <<"on_activate", Multi>> >>
                /\ active'[s] /\ active'[Multi]
                /\ active_submode' = s
       /\ \A m \in StackModes :
            (/\ active_submode # None
             /\ PushMode(m) \/ PopMode \/ SwapModes(m) \/ RemoveMode(m)) =>
                active_submode' = active_submode
       /\ (/\ active_submode = None
           /\ submodes # <<>>
           /\ ~active[Multi]
           /\ PushMode(Multi)) =>
                /\ active_submode' = submodes[1]
                /\ active'[submodes[1]] /\ active'[Multi]
      ]_vars

\* C16 witness: the mode pushed above the composite has been popped and the
\* composite has activated B, its active submode from before, and not A, the
\* first of its submodes [A, B].
C16_Witness ==
    /\ op.name = "pop_mode"
    /\ ret = Other
    /\ modes = <<Multi>>
    /\ submodes = <<"A", "B">>
    /\ active_submode = "B"
    /\ log = << <<"on_deactivate", Other>>, <<"on_activate", "B">>,
                <<"on_activate", Multi>> >>

\* C17 as stated: add_submode(mode, before=b), where b is a submode and mode
\* is not one yet, inserts mode immediately before b, keeps the order of the
\* others and activates nothing; with neither before nor index the mode is
\* appended at the end.
C17_AddBeforeAsStated ==
    [][\A mode \in Modes :
          /\ \A b \in Modes :
                (/\ b \in Range(submodes)
                 /\ mode \notin Range(submodes)
                 /\ AddSubmode(mode, b, <<>>)) =>
                    /\ raised' = None
                    /\ submodes' = list_insert(submodes, list_index(submodes, b), mode)
                    /\ UNCHANGED <<active, active_submode>>
          /\ (mode \notin Range(submodes) /\ AddSubmode(mode, None, <<>>)) =>
                    /\ raised' = None
                    /\ submodes' = Append(submodes, mode)
                    /\ UNCHANGED <<active, active_submode>>
      ]_vars

\* C21 as stated: remove_submode(m) for a member m of the submode list that
\* is not the active submode invokes no hook of any mode and leaves
\* active_submode as it was.
C21_RemoveInactiveAsStated ==
    [][\A m \in Modes :
          (/\ m \in Range(submodes)
           /\ m # active_submode
           /\ RemoveSubmode(m)) =>
              /\ log' = <<>>
              /\ active_submode' = active_submode
      ]_vars

\* C22 as stated: push_mode of a composite that has no submodes fails and
\* leaves the manager as it was: the composite is not on the stack and the
\* mode that was current is still on top and still active.
C22_PushEmptyAsStated ==
    [][(submodes = <<>> /\ PushMode(Multi)) =>
            /\ raised' # None
            /\ modes' = modes
            /\ active' = active
            /\ log' = <<>>
      ]_vars

\* C24: after any sequence of add_submode, remove_submode, activate_subnode,
\* activate_next(loop=True) and activate_previous(loop=True) calls on a
\* composite with distinct submodes, active_submode is None or a member of
\* the submode list.
C24_ActiveSubmodeIsMember ==
    active_submode \in Range(submodes) \cup {None}

\* C24 witness: remove_submode has taken the active submode A out of the
\* list of an active composite; B, the next one, is the active submode and
\* is in the list.
C24_Witness ==
    /\ op = [name |-> "remove_submode", arg |-> "A"]
    /\ active[Multi]
    /\ "A" \notin Range(submodes)
    /\ active_submode = "B"
    /\ log = << <<"on_deactivate", "A">>, <<"on_activate", "B">> >>

(***************************************************************************)
(* Properties of the component entity manager.                             *)
(***************************************************************************)
\* C2: every new_entity call returns an id greater than every id issued
\* before it (the first is 1) and makes it live, so a live id is never
\* issued to a second entity and the id of a removed entity never comes
\* back.
C2_FreshIdentity ==
    [][NewEntity =>
            /\ \A i \in issued : ret' > i
            /\ issued = {} => ret' = 1
            /\ ret' \notin entities
            /\ entities' = entities \cup {ret'}
      ]_vars

\* C2 witness: new_entity has returned an id after an entity with a smaller
\* id was removed; the removed id is not live again.
C2_Witness ==
    /\ op.name = "new_entity"
    /\ ret \in entities
    /\ \E i \in issued : i < ret /\ i \notin entities

\* C3 as stated: removing a live entity id deletes its record from every
\* registered store (stores without a record are skipped) and takes the id
\* out of the live set, without an error.
C3_RemoveAsStated ==
    [][\A id \in Ids : (id \in entities /\ DelEntity(id)) =>
            /\ raised' = None
            /\ \A n \in DOMAIN components' : ~store_contains(components'[n], id)
            /\ ~manager_contains([entities |-> entities'], id)
      ]_vars

\* The ids that have a record in every one of the named stores.
InAllStores(names) ==
    {i \in Ids : \A k \in 1..Len(names) : store_contains(components[names[k]], i)}

\* C4 as stated: iter_components(n1..nk) yields one list for every entity id
\* that has a record in all of the named stores and none for any other id;
\* the list holds the entity's record from each named store, in the order
\* of the names.  For the first next() of the generator that is: it yields
\* the list of an id that has a record in all the named stores, and it ends
\* the iteration only when there is no such id.
C4_IterAsStated ==
    [][(/\ gen.pc = "created"
        /\ Range(gen.names) \subseteq DOMAIN components
        /\ GeneratorNext) =>
            IF InAllStores(gen.names) = {}
            THEN raised' = "StopIteration"
            ELSE /\ raised' = None
                 /\ \E i \in InAllStores(gen.names) :
                        ret' = [id |-> i,
                                recs |-> [k \in 1..Len(gen.names) |->
                                             components[gen.names[k]].data[i]]]
      ]_vars

\* C5 as stated: one run(dt) call invokes every registered system exactly
\* once, in registration order, each with dt, the clock already advanced.
C5_RunAsStated ==
    [][\A dt \in Dts : Run(dt) =>
            /\ \A s \in Range(systems) :
                    Cardinality({k \in 1..Len(log') : log'[k][2] = s}) = 1
            /\ \A k \in 1..Len(log') : log'[k] = <<"run", log'[k][2], dt, time + dt>>
            /\ \A j, k \in 1..Len(systems) : j < k => registered[j] < registered[k]
      ]_vars

\* C5 amended: one run(dt) call invokes the entries of the system list once
\* each (a system registered twice is run twice), in the order the entries
\* were registered (constructor order, then add_system order, removed entries
\* left out), each with dt, and every system sees the clock already advanced
\* by dt.
C5_Run ==
    [][\A dt \in Dts : Run(dt) =>
            /\ log' = [k \in 1..Len(systems) |-> <<"run", systems[k], dt, time + dt>>]
            /\ \A j, k \in 1..Len(systems) : j < k => registered[j] < registered[k]
            /\ time' = time + dt
            /\ systems' = systems
      ]_vars

\* C5 witness: a run(2) call has invoked S2 and then S3, both with dt 2 and
\* the clock at 2, after S1 was removed from the constructor's (S2, S1) and
\* S3 was added.
C5_Witness ==
    /\ op = [name |-> "run", arg |-> 2]
    /\ systems = <<"S2", "S3">>
    /\ log = << <<"run", "S2", 2, 2>>, <<"run", "S3", 2, 2>> >>
    /\ time = 2

\* C20: removing an entity id that is not live (never issued, or removed
\* before) raises KeyError and leaves the live set, every component store
\* and the identity counter as they were.
C20_RemoveNotLive ==
    [][\A id \in Ids : (id \notin entities /\ DelEntity(id)) =>
            /\ raised' = "KeyError"
            /\ UNCHANGED <<entities, components, entity_id>>
      ]_vars

\* C20 witness: the second removal of an entity that was issued and removed
\* has raised KeyError, while another entity is live with a record in a store.
C20_Witness ==
    /\ op.name = "delitem"
    /\ raised = "KeyError"
    /\ op.arg \in issued
    /\ op.arg \notin entities
    /\ \E n \in DOMAIN components, id \in entities : store_contains(components[n], id)

\* C23 as stated: iter_components over two or more component names is a
\* read-only query: neither the call nor any next() of its generator changes
\* a store; every named store, the first included, holds the same entity ids
\* and records afterwards.
C23_IterReadOnlyAsStated ==
    [][/\ \A names \in NameLists :
            (Len(names) >= 2 /\ IterComponents(names)) => components' = components
       /\ (Len(gen.names) >= 2 /\ GeneratorNext) => components' = components
      ]_vars

(***************************************************************************)
(* Specifications.  The three parts share no state but the report of the   *)
(* last call, so each is also checked alone, the others left as built.     *)
(***************************************************************************)
Init == MInit /\ \E kw \in ConstructorComponents : EInit(kw) /\ SInit(kw)

InitModes ==
    /\ Init /\ dict_has_itervalues = TRUE /\ DOMAIN components = Names
    /\ systems = <<>> /\ submodes = <<>>

InitMulti ==
    /\ Init /\ dict_has_itervalues = TRUE /\ DOMAIN components = Names
    /\ systems = <<>>
    /\ Range(submodes) \subseteq MultiSubmodes

\* A composite built with the submodes subs and pushed on the empty stack.
PushedComposite(subs) ==
    push_mode([modes |-> <<>>, pushed |-> <<>>,
               active |-> [m \in AllModes |-> FALSE],
               manager |-> [m \in AllModes |-> None],
               submodes |-> subs, active_submode |-> None, step_rate |-> None,
               log |-> <<>>, ret |-> None, raised |-> None], Multi)

\* The composite as built, or built with submodes and pushed on a manager.
InitSubmodes ==
    /\ \E kw \in ConstructorComponents : EInit(kw) /\ SInit(kw)
    /\ dict_has_itervalues = TRUE /\ DOMAIN components = Names
    /\ systems = <<>>
    /\ \/ MInit
       \/ \E subs \in ConstructorSubmodes \ {<<>>} :
            LET st == PushedComposite(subs)
            IN  /\ modes = st.modes
                /\ pushed = st.pushed
                /\ active = st.active
                /\ manager = st.manager
                /\ submodes = st.submodes
                /\ active_submode = st.active_submode
                /\ step_rate = st.step_rate
                /\ op = [name |-> "init", arg |-> None]
                /\ ret = None
                /\ raised = None

InitEntities == Init /\ systems = <<>> /\ submodes = <<>>

InitSystems ==
    /\ Init /\ dict_has_itervalues = TRUE /\ DOMAIN components = Names
    /\ submodes = <<>>

Next == CallsNext \/ MultiNext \/ ENext \/ SNext

Spec == Init /\ [][Next]_vars

SpecModes == InitModes /\ [][MNext]_vars

SpecCalls == InitModes /\ [][CallsNext]_vars

SpecManaged == InitMulti /\ [][ManagedNext]_vars

SpecMulti == InitMulti /\ [][MultiNext]_vars

SpecSubmodes == InitSubmodes /\ [][SubmodesNext]_vars

SpecComposite == InitSubmodes /\ [][CompositeNext]_vars

SpecEntities == InitEntities /\ [][ENext]_vars

SpecSystems == InitSystems /\ [][SNext]_vars

====
